---- MODULE Spec2Model ----
(***************************************************************************)
(* simplets: a mutual-credit ledger.  The model covers the accounting core *)
(* of src/src/lib.rs (User limits, Domain::add_payment, Domain::add_user)  *)
(* and the web handlers of src/src/main.rs that call it under one Mutex.   *)
(*                                                                         *)
(* Spec     the web server: worker threads serving /payment and / requests *)
(*          against one shared Domain, plus the add-user command line.     *)
(* SpecApi  a library client calling Domain::add_payment with User values  *)
(*          of its own choosing (as src/src/tests.rs builds them).         *)
(***************************************************************************)
EXTENDS Integers, Sequences, FiniteSets, TLC

\* ------------------------------------------------------------------ bounds
MaxClock == 3       \* timestamps (and so account ids) range over 1..MaxClock
MaxPayments == 2    \* payment requests issued while fewer rows than this

Procs == {1, 2}                     \* rocket worker threads
Ids == 1 .. MaxClock
Amounts == {0, 300}                 \* form field `amount`
MinimalAmounts == {0, 10}           \* Domain::new(.., minimal_amount)
LongMessage == "xxxxxxxxxxxxxxxxxxxxxxxxxxxxxxxxxxxxxxxxxxxxxxxxxxxxxxxxxxxxxxxxxxxxxxxxxxxxxxxxxxxxxxxxxxxxxxxxxxxxxxxxxxxxxxxxxxxxxxxxxxxxxxxxxxxxxxxxxxxxx"
Messages == {"hi"}

\* inputs of SpecApi
ApiCredits == {-500, -100, 0, 3000, 10000}
ApiCounts == {0, 1, 3}
ApiAmounts == {0, 5, 10, 2500, 3001}

\* ------------------------------------------------------- machine integers
(* A usize is kept as its residue modulo 2^64.  Every signed value the     *)
(* model casts has magnitude below 2^31, so the residue is either `low`    *)
(* itself (low >= 0) or 2^64 + low (low < 0, wrapped = TRUE).              *)
AsUsize(x) == [wrapped |-> x < 0, low |-> x]

\* a <= b on usize
ULe(a, b) == IF a.wrapped = b.wrapped THEN a.low <= b.low ELSE b.wrapped

\* a > b on usize
UGt(a, b) == ~ULe(a, b)

\* the usize u is the mathematical integer x
UsizeIs(u, x) == ~u.wrapped /\ u.low = x

\* ------------------------------------------------------------ User limits
RECURSIVE IsqrtIn(_, _, _)
IsqrtIn(x, lo, hi) ==
    IF lo = hi THEN lo
    ELSE LET mid == (lo + hi + 1) \div 2
         IN  IF mid * mid <= x THEN IsqrtIn(x, mid, hi) ELSE IsqrtIn(x, lo, mid - 1)

\* (sqrt(n as f64) * 2500.0) as isize = floor(sqrt(6250000 * n)), n < 300
SqrtTimes2500(n) == IsqrtIn(6250000 * n, 0, 2500 * (n + 1))

\* ((n as f64 * 2.0).powf(0.65) * 200.0) as isize, for n = 0 .. 12
PowfTable == <<0, 313, 492, 640, 772, 893, 1005, 1111, 1212, 1309, 1401, 1491, 1578>>

\* credit_limit that grants a new user the line of one received payment
credit_limit_OffByOne(u) == PowfTable[u.payments_in + 2]

credit_limit(u) == PowfTable[u.payments_in + 1]

\* the isize value that receive_limit casts to usize
receive_limit_isize(u) == SqrtTimes2500(u.payments_out) + 2500 - u.credit

receive_limit(u) == AsUsize(receive_limit_isize(u))

\* the isize value that send_limit casts to usize
send_limit_isize(u) == credit_limit(u) + u.credit

send_limit(u) == AsUsize(send_limit_isize(u))

Zero == AsUsize(0)
Err(tag, val) == [tag |-> tag, val |-> val]
Ok == Err("Ok", Zero)
NoResult == Err("none", Zero)
DbErr == Err("Db", Zero)

\* payment_limit that looks at the payee's receive limit only
payment_limit_ReceiveOnly(payer, payee) ==
    Err("PaymentReceiveLimit", receive_limit(payee))

\* payment_limit that looks at the payer's send limit only
payment_limit_SendOnly(payer, payee) ==
    Err("PaymentSendLimit", send_limit(payer))

payment_limit(payer, payee) ==
    LET sl == send_limit(payer)
        rl == receive_limit(payee)
    IN  IF ULe(sl, rl) THEN Err("PaymentSendLimit", sl)
        ELSE Err("PaymentReceiveLimit", rl)

\* validate with the self-payment check moved in front of the minimum check
validate_SidesFirst(payer, payee, amount, min) ==
    IF payer.id = payee.id THEN Err("PaymentSidesEq", Zero)
    ELSE IF amount < min THEN Err("PaymentLessMin", AsUsize(min))
    ELSE LET limit == payment_limit(payer, payee)
         IN  IF UGt(AsUsize(amount), limit.val) THEN limit ELSE Ok

\* validate with the limit check moved in front of the self-payment check
validate_LimitFirst(payer, payee, amount, min) ==
    IF amount < min THEN Err("PaymentLessMin", AsUsize(min))
    ELSE LET limit == payment_limit(payer, payee)
         IN  IF UGt(AsUsize(amount), limit.val) THEN limit
             ELSE IF payer.id = payee.id THEN Err("PaymentSidesEq", Zero) ELSE Ok

\* the checks of add_payment between opening the transaction and its first
\* statement; Ok when the payment goes on to the updates
validate(payer, payee, amount, min) ==
    IF amount < min THEN Err("PaymentLessMin", AsUsize(min))
    ELSE IF payer.id = payee.id THEN Err("PaymentSidesEq", Zero)
    ELSE LET limit == payment_limit(payer, payee)
         IN  IF UGt(AsUsize(amount), limit.val) THEN limit ELSE Ok

\* ------------------------------------------------------------------ state
VARIABLES
    minimal_amount,  \* Domain.minimal_amount
    clock,           \* wall clock in seconds: Local::now(), datetime('now')
    disk,            \* committed content of the database file: user and payment tables
    tx,              \* the transaction of the Domain's connection
    mutex,           \* the std::sync::Mutex around the Domain
    pc,              \* position of each worker thread in its handler
    req,             \* the request a worker is serving
    loc,             \* a handler's local User values
    result,          \* what add_payment returned, or how the handler ended early
    obs              \* what the index handler has read for its template

vars == <<minimal_amount, clock, disk, tx, mutex, pc, req, loc, result, obs>>

NoTx == [open |-> FALSE, dirty |-> FALSE, users |-> <<>>, payments |-> <<>>]
NoReq == [kind |-> "none", user |-> 0, payee |-> 0, amount |-> 0, message |-> ""]
NoUser == [id |-> 0, credit |-> 0, payments_in |-> 0, payments_out |-> 0]
NoLoc == [payer |-> NoUser, payee |-> NoUser]
NoObs == [user |-> NoUser, payments |-> <<>>]
FreeMutex == [holder |-> 0, poisoned |-> FALSE]

\* a row of table user as INSERTed by add_user
NewRow == [credit |-> 0, payments_in |-> 0, payments_out |-> 0]

\* what a statement on the Domain's connection sees
View == IF tx.dirty THEN [users |-> tx.users, payments |-> tx.payments] ELSE disk

\* SELECT * FROM user WHERE id = ?  as a User value
UserOf(users, id) ==
    [id |-> id, credit |-> users[id].credit,
     payments_in |-> users[id].payments_in, payments_out |-> users[id].payments_out]

\* sum of the credit column (healthcheck)
RECURSIVE SumCredit(_, _)
SumCredit(users, ids) ==
    IF ids = {} THEN 0
    ELSE LET i == CHOOSE j \in ids : TRUE
         IN  users[i].credit + SumCredit(users, ids \ {i})

\* DebitPayer without the payments_out increment
DebitPayer_NoCount(users, id, amount) ==
    [i \in DOMAIN users |->
        IF i = id THEN [users[i] EXCEPT !.credit = @ - amount] ELSE users[i]]

\* UPDATE user SET credit = credit - ?1, payments_out = payments_out + 1 WHERE id = ?2
DebitPayer(users, id, amount) ==
    [i \in DOMAIN users |->
        IF i = id THEN [users[i] EXCEPT !.credit = @ - amount, !.payments_out = @ + 1]
        ELSE users[i]]

\* CreditPayee that counts the payment but leaves the credit column alone
CreditPayee_NoCredit(users, id, amount) ==
    [i \in DOMAIN users |->
        IF i = id THEN [users[i] EXCEPT !.payments_in = @ + 1] ELSE users[i]]

\* UPDATE user SET credit = credit + ?1, payments_in = payments_in + 1 WHERE id = ?2
CreditPayee(users, id, amount) ==
    [i \in DOMAIN users |->
        IF i = id THEN [users[i] EXCEPT !.credit = @ + amount, !.payments_in = @ + 1]
        ELSE users[i]]

\* INSERT INTO payment (payer, payee, amount, created, message)
InsertPayment(payments, payer, payee, amount, message, now) ==
    Append(payments, [id |-> Len(payments) + 1, payer |-> payer, payee |-> payee,
                      amount |-> amount, created |-> now, message |-> message])

\* the transaction after a statement that left the tables as users, payments
Written(users, payments) ==
    [open |-> TRUE, dirty |-> TRUE, users |-> users, payments |-> payments]

\* a Transaction dropped with DropBehavior::Ignore: its writes stay pending
Rollback_Ignore(t) == [t EXCEPT !.open = FALSE]

\* dropping the Transaction without commit rolls it back
Rollback(t) == NoTx

\* COMMIT: the file takes the transaction's tables
Committed_UsersOnly(d, t) == IF t.dirty THEN [users |-> t.users, payments |-> d.payments] ELSE d

Committed(d, t) == IF t.dirty THEN [users |-> t.users, payments |-> t.payments] ELSE d

\* indices of the payments a user takes part in
Touching(payments, id) ==
    {k \in 1 .. Len(payments) : payments[k].payer = id \/ payments[k].payee = id}

\* the orders ORDER BY created DESC may return the rows ks in
Orderings(payments, ks) ==
    {o \in [1 .. Cardinality(ks) -> ks] :
        /\ \A a, b \in 1 .. Cardinality(ks) : a # b => o[a] # o[b]
        /\ \A a, b \in 1 .. Cardinality(ks) :
              a < b => payments[o[a]].created >= payments[o[b]].created}

TypeOK ==
    /\ minimal_amount \in MinimalAmounts
    /\ clock \in Ids
    /\ DOMAIN disk.users \subseteq Ids
    /\ mutex.holder \in Procs \cup {0}

Init ==
    /\ minimal_amount \in MinimalAmounts
    /\ clock = 1
    /\ disk = [users |-> <<>>, payments |-> <<>>]
    /\ tx = NoTx
    /\ mutex = FreeMutex
    /\ pc = [p \in Procs |-> "idle"]
    /\ req = [p \in Procs |-> NoReq]
    /\ loc = [p \in Procs |-> NoLoc]
    /\ result = [p \in Procs |-> NoResult]
    /\ obs = [p \in Procs |-> NoObs]

\* ---------------------------------------------------------- the handlers
\* the handler returns: its locals, the MutexGuard among them, are dropped
Return(p) ==
    /\ pc' = [pc EXCEPT ![p] = "idle"]
    /\ req' = [req EXCEPT ![p] = NoReq]
    /\ loc' = [loc EXCEPT ![p] = NoLoc]
    /\ result' = [result EXCEPT ![p] = NoResult]
    /\ obs' = [obs EXCEPT ![p] = NoObs]

\* a panic unwinds the handler; a MutexGuard dropped while panicking poisons
Panic(p) ==
    /\ mutex' = IF mutex.holder = p THEN [holder |-> 0, poisoned |-> TRUE] ELSE mutex
    /\ Return(p)

\* POST /payment arrives; the message length is checked before the lock.
\* The ids of the request (cookie user_id, form field payee) are drawn where
\* the handler first reads them: nothing else can see them before.
PaymentRequest(p) ==
    /\ pc[p] = "idle"
    /\ Len(disk.payments) + Cardinality({q \in Procs : req[q].kind = "payment"}) < MaxPayments
    /\ \E amount \in Amounts, message \in Messages \cup {LongMessage} :
          IF Len(message) > 140
          THEN /\ req' = [req EXCEPT ![p] = [NoReq EXCEPT !.kind = "payment", !.message = message]]
               /\ pc' = [pc EXCEPT ![p] = "flash"]
               /\ result' = [result EXCEPT ![p] = Err("MessageTooLong", Zero)]
          ELSE /\ req' = [req EXCEPT ![p] = [kind |-> "payment", user |-> 0, payee |-> 0,
                                             amount |-> amount, message |-> message]]
               /\ pc' = [pc EXCEPT ![p] = "lock"]
               /\ UNCHANGED result
    /\ UNCHANGED <<minimal_amount, clock, disk, tx, mutex, loc, obs>>

\* GET / arrives
IndexRequest(p) ==
    /\ pc[p] = "idle"
    /\ req' = [req EXCEPT ![p] = [NoReq EXCEPT !.kind = "index"]]
    /\ pc' = [pc EXCEPT ![p] = "lock"]
    /\ UNCHANGED <<minimal_amount, clock, disk, tx, mutex, loc, result, obs>>

\* Lock that does not wait for the holder
Lock_NoExclusion(p) ==
    /\ pc[p] = "lock"
    /\ IF mutex.poisoned
       THEN Panic(p)
       ELSE /\ mutex' = [mutex EXCEPT !.holder = p]
            /\ pc' = [pc EXCEPT ![p] = "get_user"]
            /\ UNCHANGED <<req, loc, result, obs>>
    /\ UNCHANGED <<minimal_amount, clock, disk, tx>>

\* domains.lock().unwrap(): waits while another thread holds the mutex and
\* panics when the mutex is poisoned
Lock(p) ==
    /\ pc[p] = "lock"
    /\ mutex.holder = 0
    /\ IF mutex.poisoned
       THEN Panic(p)
       ELSE /\ mutex' = [mutex EXCEPT !.holder = p]
            /\ pc' = [pc EXCEPT ![p] = "get_user"]
            /\ UNCHANGED <<req, loc, result, obs>>
    /\ UNCHANGED <<minimal_amount, clock, disk, tx>>

\* domain.get_user(user.0).expect(..): the logged-in user, of either handler
GetUser(p) ==
    /\ pc[p] = "get_user"
    /\ \E user \in Ids :
          IF user \in DOMAIN View.users
          THEN /\ req' = [req EXCEPT ![p].user = user]
               /\ loc' = [loc EXCEPT ![p].payer = UserOf(View.users, user)]
               /\ pc' = [pc EXCEPT ![p] = IF req[p].kind = "payment" THEN "get_payee" ELSE "get_payments"]
               /\ UNCHANGED <<mutex, result, obs>>
          ELSE Panic(p)
    /\ UNCHANGED <<minimal_amount, clock, disk, tx>>

\* domain.get_user(payment.payee): a missing payee or a database error ends
\* the handler with a flash message
GetPayee(p) ==
    /\ pc[p] = "get_payee"
    /\ \E payee \in Ids :
          /\ req' = [req EXCEPT ![p].payee = payee]
          /\ \/ /\ payee \in DOMAIN View.users
                /\ loc' = [loc EXCEPT ![p].payee = UserOf(View.users, payee)]
                /\ pc' = [pc EXCEPT ![p] = "add_payment"]
                /\ UNCHANGED result
             \/ /\ payee \notin DOMAIN View.users
                /\ result' = [result EXCEPT ![p] = Err("QueryReturnedNoRows", Zero)]
                /\ pc' = [pc EXCEPT ![p] = "flash"]
                /\ UNCHANGED loc
             \/ /\ result' = [result EXCEPT ![p] = DbErr]
                /\ pc' = [pc EXCEPT ![p] = "flash"]
                /\ UNCHANGED loc
    /\ UNCHANGED <<minimal_amount, clock, disk, tx, mutex, obs>>

\* add_payment returns e: the Transaction is dropped and so rolled back
Fail(p, e) ==
    /\ tx' = Rollback(tx)
    /\ result' = [result EXCEPT ![p] = e]
    /\ pc' = [pc EXCEPT ![p] = "flash"]
    /\ UNCHANGED <<minimal_amount, clock, disk, mutex, req, loc, obs>>

\* let tx = self.conn.transaction()?
Transaction(p) ==
    /\ pc[p] = "add_payment"
    /\ \/ /\ result' = [result EXCEPT ![p] = DbErr]
          /\ pc' = [pc EXCEPT ![p] = "flash"]
          /\ UNCHANGED tx
       \/ /\ tx' = [tx EXCEPT !.open = TRUE]
          /\ pc' = [pc EXCEPT ![p] = "check"]
          /\ UNCHANGED result
    /\ UNCHANGED <<minimal_amount, clock, disk, mutex, req, loc, obs>>

\* Check with the payer's UPDATE run on the connection ahead of the checks
Check_DebitsFirst(p) ==
    /\ pc[p] = "check"
    /\ LET v == validate(loc[p].payer, loc[p].payee, req[p].amount, minimal_amount)
       IN  IF v = Ok
           THEN /\ pc' = [pc EXCEPT ![p] = "upd_payer"]
                /\ UNCHANGED <<minimal_amount, clock, disk, tx, mutex, req, loc, result, obs>>
           ELSE /\ disk' = [disk EXCEPT !.users = DebitPayer(@, loc[p].payer.id, req[p].amount)]
                /\ tx' = Rollback(tx)
                /\ result' = [result EXCEPT ![p] = v]
                /\ pc' = [pc EXCEPT ![p] = "flash"]
                /\ UNCHANGED <<minimal_amount, clock, mutex, req, loc, obs>>

\* the checks of add_payment on the two User values it was given
Check(p) ==
    /\ pc[p] = "check"
    /\ LET v == validate(loc[p].payer, loc[p].payee, req[p].amount, minimal_amount)
       IN  IF v = Ok
           THEN /\ pc' = [pc EXCEPT ![p] = "upd_payer"]
                /\ UNCHANGED <<minimal_amount, clock, disk, tx, mutex, req, loc, result, obs>>
           ELSE Fail(p, v)

\* tx.execute("UPDATE user SET credit = credit - ?1 ..")?
UpdatePayer(p) ==
    /\ pc[p] = "upd_payer"
    /\ \/ Fail(p, DbErr)
       \/ /\ tx' = Written(DebitPayer(View.users, loc[p].payer.id, req[p].amount), View.payments)
          /\ pc' = [pc EXCEPT ![p] = "upd_payee"]
          /\ UNCHANGED <<minimal_amount, clock, disk, mutex, req, loc, result, obs>>

\* tx.execute("UPDATE user SET credit = credit + ?1 ..")?
UpdatePayee(p) ==
    /\ pc[p] = "upd_payee"
    /\ \/ Fail(p, DbErr)
       \/ /\ tx' = Written(CreditPayee(View.users, loc[p].payee.id, req[p].amount), View.payments)
          /\ pc' = [pc EXCEPT ![p] = "insert"]
          /\ UNCHANGED <<minimal_amount, clock, disk, mutex, req, loc, result, obs>>

\* tx.execute("INSERT INTO payment ..")?
Insert(p) ==
    /\ pc[p] = "insert"
    /\ \/ Fail(p, DbErr)
       \/ /\ tx' = Written(View.users,
                           InsertPayment(View.payments, loc[p].payer.id, loc[p].payee.id,
                                         req[p].amount, req[p].message, clock))
          /\ pc' = [pc EXCEPT ![p] = "commit"]
          /\ UNCHANGED <<minimal_amount, clock, disk, mutex, req, loc, result, obs>>

\* tx.commit()?; Ok(())
Commit(p) ==
    /\ pc[p] = "commit"
    /\ \/ Fail(p, DbErr)
       \/ /\ disk' = Committed(disk, tx)
          /\ tx' = NoTx
          /\ result' = [result EXCEPT ![p] = Ok]
          /\ pc' = [pc EXCEPT ![p] = "flash"]
          /\ UNCHANGED <<minimal_amount, clock, mutex, req, loc, obs>>

\* Some(flash): the payment handler returns and its guard, if any, unlocks
Flash(p) ==
    /\ pc[p] = "flash"
    /\ mutex' = IF mutex.holder = p THEN [mutex EXCEPT !.holder = 0] ELSE mutex
    /\ Return(p)
    /\ UNCHANGED <<minimal_amount, clock, disk, tx>>

\* domain.get_payments_by_user(user.id).unwrap()
GetPayments(p) ==
    /\ pc[p] = "get_payments"
    /\ \E o \in Orderings(View.payments, Touching(View.payments, loc[p].payer.id)) :
          obs' = [obs EXCEPT ![p] = [user |-> loc[p].payer,
                                     payments |-> [k \in DOMAIN o |-> View.payments[o[k]]]]]
    /\ pc' = [pc EXCEPT ![p] = "render"]
    /\ UNCHANGED <<minimal_amount, clock, disk, tx, mutex, req, loc, result>>

\* Template::render(..): the index handler returns and its guard unlocks
Render(p) ==
    /\ pc[p] = "render"
    /\ mutex' = [mutex EXCEPT !.holder = 0]
    /\ Return(p)
    /\ UNCHANGED <<minimal_amount, clock, disk, tx>>

\* ---------------------------------------------------------- outside the server
\* the add-user example: its own connection, one INSERT with id = now.  The
\* INSERT fails, and the example panics, on a taken id and while the server's
\* transaction holds the write lock.
AddUser_Replace ==
    /\ IF tx.dirty
       THEN UNCHANGED disk
       ELSE disk' = [disk EXCEPT !.users = (clock :> NewRow) @@ @]
    /\ UNCHANGED <<minimal_amount, clock, tx, mutex, pc, req, loc, result, obs>>

AddUser ==
    /\ IF clock \in DOMAIN disk.users \/ tx.dirty
       THEN UNCHANGED disk
       ELSE disk' = [disk EXCEPT !.users = (clock :> NewRow) @@ @]
    /\ UNCHANGED <<minimal_amount, clock, tx, mutex, pc, req, loc, result, obs>>

\* a second passes
Tick ==
    /\ clock < MaxClock
    /\ clock' = clock + 1
    /\ UNCHANGED <<minimal_amount, disk, tx, mutex, pc, req, loc, result, obs>>

Next ==
    \/ \E p \in Procs : PaymentRequest(p)
    \/ \E p \in Procs : IndexRequest(p)
    \/ \E p \in Procs : Lock(p)
    \/ \E p \in Procs : GetUser(p)
    \/ \E p \in Procs : GetPayee(p)
    \/ \E p \in Procs : Transaction(p)
    \/ \E p \in Procs : Check(p)
    \/ \E p \in Procs : UpdatePayer(p)
    \/ \E p \in Procs : UpdatePayee(p)
    \/ \E p \in Procs : Insert(p)
    \/ \E p \in Procs : Commit(p)
    \/ \E p \in Procs : Flash(p)
    \/ \E p \in Procs : GetPayments(p)
    \/ \E p \in Procs : Render(p)
    \/ AddUser
    \/ Tick

Spec == Init /\ [][Next]_vars

\* ------------------------------------------------- the library called directly
ApiRows == [credit : ApiCredits, payments_in : ApiCounts, payments_out : {0, 3}]

\* a client holds the Domain and calls add_payment(payer, payee, amount, "hi")
\* with the User values of rows 1 and 2
InitApi ==
    /\ minimal_amount \in MinimalAmounts
    /\ clock = 1
    /\ \E r1 \in ApiRows, r2 \in ApiRows :
          disk = [users |-> (1 :> r1) @@ (2 :> r2), payments |-> <<>>]
    /\ tx = NoTx
    /\ mutex = [holder |-> 1, poisoned |-> FALSE]
    /\ pc = [p \in Procs |-> IF p = 1 THEN "add_payment" ELSE "idle"]
    /\ \E payee \in {1, 2}, amount \in ApiAmounts :
          /\ req = [p \in Procs |->
                      IF p = 1 THEN [kind |-> "payment", user |-> 1, payee |-> payee,
                                     amount |-> amount, message |-> "hi"]
                      ELSE NoReq]
          /\ loc = [p \in Procs |->
                      IF p = 1 THEN [payer |-> UserOf(disk.users, 1),
                                     payee |-> UserOf(disk.users, payee)]
                      ELSE NoLoc]
    /\ result = [p \in Procs |-> NoResult]
    /\ obs = [p \in Procs |-> NoObs]

NextApi ==
    \/ Transaction(1)
    \/ Check(1)
    \/ UpdatePayer(1)
    \/ UpdatePayee(1)
    \/ Insert(1)
    \/ Commit(1)

SpecApi == InitApi /\ [][NextApi]_vars

\* ------------------------------------------------------------ properties
Payer(p) == loc[p].payer
Payee(p) == loc[p].payee
Amount(p) == req[p].amount

\* worker p takes the step that runs the checks of add_payment
CheckStep(p) == pc[p] = "check" /\ pc'[p] # "check"

\* worker p takes a step in which add_payment returns, at conn.transaction()
\* or at one of its statements, without having committed
AbortStep(p) ==
    /\ pc[p] \in {"add_payment", "upd_payer", "upd_payee", "insert", "commit"}
    /\ pc'[p] = "flash"
    /\ result'[p] # Ok

\* worker p takes the step that commits its payment
CommitStep(p) == pc[p] = "commit" /\ pc'[p] = "flash" /\ result'[p] = Ok

ValidationTags == {"PaymentLessMin", "PaymentSidesEq", "PaymentSendLimit", "PaymentReceiveLimit"}

RECURSIVE SumAmount(_, _)
SumAmount(payments, ks) ==
    IF ks = {} THEN 0
    ELSE LET k == CHOOSE j \in ks : TRUE
         IN  payments[k].amount + SumAmount(payments, ks \ {k})

\* C1: the credits of all accounts sum to 0, in the committed tables at every
\* moment and in what the server's connection shows whenever the mutex is free
C1_ZeroSum ==
    /\ SumCredit(disk.users, DOMAIN disk.users) = 0
    /\ mutex.holder = 0 => SumCredit(View.users, DOMAIN View.users) = 0

\* in a pool of three a payment of a positive amount is committed: one account
\* is in debt, another in surplus
C1_Witness ==
    /\ Cardinality(DOMAIN disk.users) = 3
    /\ \E k \in DOMAIN disk.payments : disk.payments[k].amount > 0
    /\ \E i, j \in DOMAIN disk.users : disk.users[i].credit < 0 /\ disk.users[j].credit > 0

\* C2: the step that commits a payment of a from P to Q takes a from P's credit
\* and adds 1 to P's payments_out, adds a to Q's credit and 1 to Q's
\* payments_in, appends one payment row (P, Q, a, message) and changes nothing
\* else in the committed tables
C2_CommitEffect ==
    [][\A p \in Procs : CommitStep(p) =>
         LET P == Payer(p).id
             Q == Payee(p).id
             n == Len(disk.payments)
         IN  /\ DOMAIN disk'.users = DOMAIN disk.users
             /\ disk'.users[P] = [disk.users[P] EXCEPT !.credit = @ - Amount(p),
                                                       !.payments_out = @ + 1]
             /\ disk'.users[Q] = [disk.users[Q] EXCEPT !.credit = @ + Amount(p),
                                                       !.payments_in = @ + 1]
             /\ \A i \in DOMAIN disk.users \ {P, Q} : disk'.users[i] = disk.users[i]
             /\ Len(disk'.payments) = n + 1
             /\ SubSeq(disk'.payments, 1, n) = disk.payments
             /\ disk'.payments[n + 1].payer = P
             /\ disk'.payments[n + 1].payee = Q
             /\ disk'.payments[n + 1].amount = Amount(p)
             /\ disk'.payments[n + 1].message = req[p].message]_vars

\* a payment of a positive amount has just been committed in a pool of three
C2_Witness ==
    \E p \in Procs :
        /\ pc[p] = "flash" /\ result[p] = Ok /\ Amount(p) > 0
        /\ Cardinality(DOMAIN disk.users) = 3

\* C3: the step in which a check of add_payment fails changes no row of user
\* or payment, committed or pending, and returns one of the four check errors
C3_RejectNoEffect ==
    [][\A p \in Procs : (CheckStep(p) /\ pc'[p] = "flash") =>
         /\ result'[p].tag \in ValidationTags
         /\ disk' = disk
         /\ ~tx'.dirty
         /\ View' = disk]_vars

\* add_payment has returned PaymentReceiveLimit
C3_Witness == pc[1] = "flash" /\ result[1].tag = "PaymentReceiveLimit"

\* C4: what the index handler reads is committed and whole: the user row it
\* holds is the committed row, no transaction has pending writes while it
\* reads, and the row's counters and credit agree with the payments it lists
C4_ReaderAtomic ==
    \A p \in Procs : req[p].kind = "index" =>
        /\ pc[p] \in {"get_payments", "render"} =>
              /\ ~tx.dirty
              /\ Payer(p) = UserOf(disk.users, req[p].user)
        /\ pc[p] = "render" =>
              LET u == obs[p].user
                  ps == obs[p].payments
                  out == {k \in DOMAIN ps : ps[k].payer = u.id}
                  in == {k \in DOMAIN ps : ps[k].payee = u.id}
              IN  /\ u.payments_out = Cardinality(out)
                  /\ u.payments_in = Cardinality(in)
                  /\ u.credit = SumAmount(ps, in) - SumAmount(ps, out)

\* an index request has read a user and its payments while a payment request
\* waits for the mutex
C4_Witness ==
    \E p, q \in Procs :
        /\ pc[p] = "render" /\ Len(obs[p].payments) > 0
        /\ pc[q] = "lock" /\ req[q].kind = "payment"

\* C5: a step in which add_payment gives up at conn.transaction() or at one of
\* its statements returns Db, leaves the committed tables as they were and
\* leaves nothing pending; after it the rows of payer and payee are the ones
\* loaded before the call
C5_StorageFailureAborts ==
    /\ [][\A p \in Procs : AbortStep(p) =>
            /\ result'[p] = DbErr
            /\ disk' = disk
            /\ tx' = NoTx
            /\ View' = disk]_vars
    /\ [](\A p \in Procs :
            (pc[p] = "flash" /\ result[p] = DbErr /\ Payee(p).id # 0) =>
                /\ UserOf(disk.users, Payer(p).id) = Payer(p)
                /\ UserOf(disk.users, Payee(p).id) = Payee(p)
                /\ View = disk)

\* add_payment of a positive amount has returned Db while the other worker
\* is inside a handler
C5_Witness ==
    \E p, q \in Procs :
        /\ pc[p] = "flash" /\ result[p] = DbErr /\ Payee(p).id # 0 /\ Amount(p) > 0
        /\ Payer(p).id # Payee(p).id
        /\ send_limit_isize(Payer(p)) >= Amount(p)
        /\ q # p /\ pc[q] = "lock"

\* C6: for distinct payer and payee and amount >= minimal_amount, with the
\* limits as signed integers: when send limit <= receive limit the checks
\* return PaymentSendLimit(send limit) exactly when amount > send limit, else
\* PaymentReceiveLimit(receive limit) exactly when amount > receive limit, and
\* pass otherwise
C6_LimitRule ==
    [][\A p \in Procs :
         (CheckStep(p) /\ Payer(p).id # Payee(p).id /\ Amount(p) >= minimal_amount) =>
             LET ps == send_limit_isize(Payer(p))
                 pr == receive_limit_isize(Payee(p))
             IN  IF ps <= pr
                 THEN IF Amount(p) > ps
                      THEN /\ pc'[p] = "flash"
                           /\ result'[p].tag = "PaymentSendLimit"
                           /\ UsizeIs(result'[p].val, ps)
                      ELSE pc'[p] = "upd_payer"
                 ELSE IF Amount(p) > pr
                      THEN /\ pc'[p] = "flash"
                           /\ result'[p].tag = "PaymentReceiveLimit"
                           /\ UsizeIs(result'[p].val, pr)
                      ELSE pc'[p] = "upd_payer"]_vars

\* C7: when the payee's receive limit or the payer's send limit is negative
\* the checks reject the payment, whatever the amount
C7_NegativeLimitRejects ==
    [][\A p \in Procs :
         (CheckStep(p) /\ (receive_limit_isize(Payee(p)) < 0 \/ send_limit_isize(Payer(p)) < 0)) =>
             /\ pc'[p] = "flash"
             /\ result'[p].tag \in ValidationTags]_vars

\* C8: the checks run in the order minimum, self-payment, limits and the first
\* that fails decides the error: amount < minimal_amount gives PaymentLessMin
\* (minimal_amount) whoever the parties and whatever the limits, and otherwise
\* equal ids give PaymentSidesEq whatever the limits
C8_Precedence ==
    [][\A p \in Procs : CheckStep(p) =>
         /\ Amount(p) < minimal_amount =>
               /\ pc'[p] = "flash"
               /\ result'[p] = Err("PaymentLessMin", AsUsize(minimal_amount))
         /\ (Amount(p) >= minimal_amount /\ Payer(p).id = Payee(p).id) =>
               /\ pc'[p] = "flash"
               /\ result'[p] = Err("PaymentSidesEq", Zero)
         /\ (Amount(p) >= minimal_amount /\ Payer(p).id # Payee(p).id) =>
               \/ pc'[p] = "upd_payer"
               \/ result'[p].tag \in {"PaymentSendLimit", "PaymentReceiveLimit"}]_vars

\* a self-payment above both limits was refused as PaymentSidesEq
C8_Witness ==
    /\ pc[1] = "flash" /\ result[1].tag = "PaymentSidesEq"
    /\ Payer(1).id = Payee(1).id
    /\ UGt(AsUsize(Amount(1)), payment_limit(Payer(1), Payee(1)).val)

\* C9 as stated: a payment of an account to itself is refused as
\* PaymentSidesEq, whatever the amount, and changes nothing
C9_SelfTransferAlways ==
    [][\A p \in Procs : (CheckStep(p) /\ Payer(p).id = Payee(p).id) =>
         /\ pc'[p] = "flash"
         /\ result'[p] = Err("PaymentSidesEq", Zero)
         /\ disk' = disk]_vars

\* C9 amended: a payment of an account to itself never reaches the updates
\* and never returns Ok; the checks refuse it, as PaymentLessMin
\* (minimal_amount) when amount < minimal_amount and as PaymentSidesEq
\* otherwise, and nothing changes
C9_SelfTransferRefused ==
    /\ [][\A p \in Procs : (CheckStep(p) /\ Payer(p).id = Payee(p).id) =>
            /\ pc'[p] = "flash"
            /\ result'[p] = IF Amount(p) < minimal_amount
                            THEN Err("PaymentLessMin", AsUsize(minimal_amount))
                            ELSE Err("PaymentSidesEq", Zero)
            /\ disk' = disk
            /\ View' = disk]_vars
    /\ [](\A p \in Procs : (Payer(p).id = Payee(p).id /\ Payer(p).id # 0) =>
            /\ pc[p] \notin {"upd_payer", "upd_payee", "insert", "commit"}
            /\ result[p] # Ok)

\* a self-payment below the minimum was refused as PaymentLessMin
C9_Witness ==
    \E p \in Procs :
        /\ pc[p] = "flash" /\ result[p].tag = "PaymentLessMin"
        /\ Payer(p).id = Payee(p).id /\ Payer(p).id # 0

\* C10: receive_limit of an account is the signed integer
\* floor(sqrt(payments_out) * 2500) + 2500 - credit; stated of the payee of
\* every add_payment that has evaluated payment_limit
C10_ReceiveLimitSigned ==
    \A p \in Procs :
        (\/ pc[p] \in {"upd_payer", "upd_payee", "insert", "commit"}
         \/ pc[p] = "flash" /\ result[p].tag \in {"Ok", "PaymentSendLimit", "PaymentReceiveLimit"}) =>
            UsizeIs(receive_limit(Payee(p)),
                    SqrtTimes2500(Payee(p).payments_out) + 2500 - Payee(p).credit)

\* ------------------------------------------------------------------ C11
\* the step of a payment request that finds its payer (the cookie's user_id)
\* or its payee missing: the lookup was made and neither found the account nor
\* failed with a database error
NotFoundStep(p) ==
    /\ req[p].kind = "payment"
    /\ \/ pc[p] = "get_user" /\ pc'[p] # "get_payee"
       \/ pc[p] = "get_payee" /\ pc'[p] # "add_payment" /\ result'[p] # DbErr

\* C11: a payment request whose payer or payee does not exist ends with a
\* returned not-found error (for the payer as for the payee), changes nothing
\* in the database, and leaves the Domain usable: the mutex is neither held
\* nor poisoned afterwards.
C11_NotFoundReturned ==
    [][\A p \in Procs :
          NotFoundStep(p) =>
             /\ pc'[p] = "flash"
             /\ result'[p].tag = "QueryReturnedNoRows"
             /\ disk' = disk /\ tx' = tx
             /\ ~mutex'.poisoned]_vars

\* ------------------------------------------------------------------ C12
\* C12: every recorded payment has a strictly positive amount and names two
\* distinct existing users, whatever minimal_amount the Domain was built
\* with, 0 included.
C12_PaymentsWellFormed ==
    \A k \in DOMAIN disk.payments :
       /\ disk.payments[k].amount > 0
       /\ disk.payments[k].payer # disk.payments[k].payee
       /\ disk.payments[k].payer \in DOMAIN disk.users
       /\ disk.payments[k].payee \in DOMAIN disk.users

\* ------------------------------------------------------------------ C13
\* C13: a step that adds a user adds exactly one, with credit 0 and both
\* counters 0, under an id no existing user has, and leaves every existing
\* user and every payment as it was; an add_user whose INSERT is rejected (the
\* id is taken) changes nothing: outside a committing payment no existing
\* user row ever changes and no user disappears.
C13_AddUserEffect ==
    [][/\ DOMAIN disk.users \subseteq DOMAIN disk'.users
       /\ DOMAIN disk'.users # DOMAIN disk.users =>
             /\ clock \notin DOMAIN disk.users
             /\ disk'.users = (clock :> NewRow) @@ disk.users
             /\ disk'.payments = disk.payments
       /\ (\E i \in DOMAIN disk.users : disk'.users[i] # disk.users[i]) =>
             \E p \in Procs : CommitStep(p)]_vars

\* a user was added under the current second beside users whose credit has
\* moved; a further add_user in this state collides with the new id
C13_Witness ==
    /\ clock \in DOMAIN disk.users
    /\ disk.users[clock] = NewRow
    /\ \E i \in DOMAIN disk.users : disk.users[i].credit # 0

\* ------------------------------------------------------------------ C14
\* C14: the list the index handler reads for a user holds exactly the recorded
\* payments in which the user is payer or payee, newest first: of any two of
\* them the one committed later (the larger payment id) comes earlier in the
\* list, also when both were committed within the same second.
C14_NewestFirst ==
    \A p \in Procs :
       pc[p] = "render" =>
          LET l == obs[p].payments
              u == obs[p].user.id
          IN /\ {l[k].id : k \in DOMAIN l} = {disk.payments[k].id : k \in Touching(disk.payments, u)}
             /\ Len(l) = Cardinality(Touching(disk.payments, u))
             /\ \A a, b \in DOMAIN l : a < b => l[a].id > l[b].id

\* ------------------------------------------------------------------ C15
\* the part of a request that runs with the MutexGuard alive
InCritical(p) == pc[p] \notin {"idle", "lock"} /\ ~(pc[p] = "flash" /\ mutex.holder # p)

\* the steps of add_payment, from the begin of the transaction to its commit
InAddPayment(p) == pc[p] \in {"add_payment", "check", "upd_payer", "upd_payee", "insert", "commit"}

\* C15: under every interleaving of the two workers' requests, the load of
\* both users, the validation and the three writes of one payment run in one
\* critical section: at most one request is inside it, the users it loaded
\* are the users as committed at that moment, and so every committing payment
\* has amount >= minimal_amount, amount <= send limit of the payer and amount
\* <= receive limit of the payee, all evaluated on the database just before
\* its commit.
C15_CriticalSection ==
    /\ [](\A p, q \in Procs : InCritical(p) /\ InCritical(q) => p = q)
    /\ [](\A p \in Procs :
             InAddPayment(p) =>
                /\ mutex.holder = p
                /\ Payer(p) = UserOf(disk.users, req[p].user)
                /\ Payee(p) = UserOf(disk.users, req[p].payee))
    /\ [][\A p \in Procs :
             CommitStep(p) =>
                LET payer == UserOf(disk.users, req[p].user)
                    payee == UserOf(disk.users, req[p].payee)
                IN /\ Amount(p) >= minimal_amount
                   /\ Amount(p) <= send_limit_isize(payer)
                   /\ Amount(p) <= receive_limit_isize(payee)]_vars

\* a payment commits while the other worker's payment request waits for the
\* mutex
C15_Witness ==
    \E p, q \in Procs :
       /\ p # q
       /\ pc[p] = "flash" /\ result[p] = Ok /\ mutex.holder = p
       /\ pc[q] = "lock" /\ req[q].kind = "payment"

\* ------------------------------------------------------------------ C16
\* the recorded payments with the user as payer, as payee
PaidBy(payments, id) == {k \in 1 .. Len(payments) : payments[k].payer = id}
PaidTo(payments, id) == {k \in 1 .. Len(payments) : payments[k].payee = id}

\* C16: in the committed tables, every user's payments_out is the number of
\* recorded payments with the user as payer, payments_in the number with the
\* user as payee, and credit the sum of the amounts received minus the sum of
\* the amounts sent; the counters never decrease, and a recorded payment is
\* never modified or removed.
C16_LedgerConsistent ==
    /\ [](\A i \in DOMAIN disk.users :
             /\ disk.users[i].payments_out = Cardinality(PaidBy(disk.payments, i))
             /\ disk.users[i].payments_in = Cardinality(PaidTo(disk.payments, i))
             /\ disk.users[i].credit = SumAmount(disk.payments, PaidTo(disk.payments, i))
                                          - SumAmount(disk.payments, PaidBy(disk.payments, i)))
    /\ [][/\ \A i \in DOMAIN disk.users :
                /\ disk'.users[i].payments_out >= disk.users[i].payments_out
                /\ disk'.users[i].payments_in >= disk.users[i].payments_in
          /\ Len(disk'.payments) >= Len(disk.payments)
          /\ \A k \in DOMAIN disk.payments : disk'.payments[k] = disk.payments[k]]_vars

\* two payments are recorded, one of them of a positive amount, and a user
\* takes part in both
C16_Witness ==
    /\ Len(disk.payments) = 2
    /\ \E k \in DOMAIN disk.payments : disk.payments[k].amount > 0
    /\ \E i \in DOMAIN disk.users : Cardinality(Touching(disk.payments, i)) = 2

\* ------------------------------------------------------------------ C17
\* C17: starting from users made by add_user, after any sequence of payment
\* requests every user has credit >= -credit_limit, that is a send limit that
\* is not negative, in the committed tables and in what the server's
\* connection shows in the middle of a payment.
C17_CreditLine ==
    /\ \A i \in DOMAIN disk.users : send_limit_isize(disk.users[i]) >= 0
    /\ \A i \in DOMAIN View.users : send_limit_isize(View.users[i]) >= 0

\* a user has drawn credit and what is left of the line, though not negative,
\* is less than the user was granted
C17_Witness ==
    \E i \in DOMAIN disk.users :
       /\ disk.users[i].credit < 0
       /\ credit_limit(disk.users[i]) > 0
       /\ send_limit_isize(disk.users[i]) < credit_limit(disk.users[i])

\* ------------------------------------------------------------------ C18
\* every user of the committed table d is within the receive ceiling:
\* credit <= floor(sqrt(payments_out) * 2500) + 2500
WithinCeiling(d) == \A i \in DOMAIN d.users : receive_limit_isize(d.users[i]) >= 0

\* C18: every user stays within the receive ceiling, receive_limit >= 0, so
\* the health check never reports "sus funds".  By induction over the
\* payments: a user as add_user makes it is within the ceiling, and a payment
\* that commits on a table whose users are all within the ceiling leaves them
\* all within the ceiling.
C18_ReceiveCeiling ==
    /\ [](receive_limit_isize(NewRow) >= 0)
    /\ [][\A p \in Procs :
             CommitStep(p) /\ WithinCeiling(disk) => WithinCeiling(disk')]_vars

\* a payment committed between two users within the ceiling and took the
\* payee exactly to the ceiling
C18_Witness ==
    /\ pc[1] = "flash" /\ result[1] = Ok
    /\ receive_limit_isize(Payer(1)) >= 0
    /\ receive_limit_isize(Payee(1)) >= 0
    /\ Amount(1) > 0
    /\ receive_limit_isize(disk.users[Payee(1).id]) = 0

\* ------------------------------------------------------------------ C19
\* the payer add_payment validates has credit 0 and has received no payment
\* yet, and the amount is at least 1
FreshPayerCheck(p) ==
    /\ CheckStep(p)
    /\ Payer(p).credit = 0
    /\ Payer(p).payments_in = 0
    /\ Amount(p) >= 1

\* where minimal_amount >= 1, nothing was ever committed: no payment is
\* recorded and every user is as add_user made it
NothingCommitted ==
    minimal_amount >= 1 =>
       /\ disk.payments = <<>>
       /\ \A i \in DOMAIN disk.users : disk.users[i] = NewRow

C20_LockReleased ==
    /\ [](\A p \in Procs : pc[p] = "idle" => mutex.holder # p)
    /\ []((\A p \in Procs : pc[p] \in {"idle", "lock"}) => mutex.holder = 0 /\ tx = NoTx)
    /\ [][\A p \in Procs :
             pc[p] = "lock" /\ pc'[p] # "lock" =>
                pc'[p] = "get_user" /\ mutex'.holder = p]_vars

\* ------------------------------------------------------------------ C21
\* new_user of the tests: a User with the given credit and counters
new_user(credit, payments_in, payments_out) ==
    [credit |-> credit, payments_in |-> payments_in, payments_out |-> payments_out]

\* the users the tests build
TestUsers ==
    {new_user(10, 1, 0), new_user(0, 0, 0), new_user(3000, 0, 0),
     new_user(10000, 3, 3), new_user(-100, 2, 2), new_user(10000, 0, 0)}

TestAmounts == {5, 400, 2500, 5000}

\* a client calls add_payment with two of the tests' users, so that
\* payment_limit is applied to them
InitTests ==
    /\ minimal_amount \in MinimalAmounts
    /\ clock = 1
    /\ \E r1 \in TestUsers, r2 \in TestUsers :
          disk = [users |-> (1 :> r1) @@ (2 :> r2), payments |-> <<>>]
    /\ tx = NoTx
    /\ mutex = [holder |-> 1, poisoned |-> FALSE]
    /\ pc = [p \in Procs |-> IF p = 1 THEN "add_payment" ELSE "idle"]
    /\ \E payee \in {1, 2}, amount \in TestAmounts :
          /\ req = [p \in Procs |->
                      IF p = 1 THEN [kind |-> "payment", user |-> 1, payee |-> payee,
                                     amount |-> amount, message |-> "hi"]
                      ELSE NoReq]
          /\ loc = [p \in Procs |->
                      IF p = 1 THEN [payer |-> UserOf(disk.users, 1),
                                     payee |-> UserOf(disk.users, payee)]
                      ELSE NoLoc]
    /\ result = [p \in Procs |-> NoResult]
    /\ obs = [p \in Procs |-> NoObs]

SpecTests == InitTests /\ [][NextApi]_vars

\* add_payment has evaluated payment_limit on the users of request p
LimitEvaluated(p) ==
    \/ pc[p] \in {"upd_payer", "upd_payee", "insert", "commit"}
    \/ pc[p] = "flash" /\ result[p].tag \in {"Ok", "PaymentSendLimit", "PaymentReceiveLimit"}

\* u has the credit and counters of t
IsUser(u, t) ==
    /\ u.credit = t.credit
    /\ u.payments_in = t.payments_in
    /\ u.payments_out = t.payments_out

\* C21: the limit functions give the values of the tests, users written as
\* (credit, payments_in, payments_out): payment_limit of payer (3000, 0, 0)
\* against payee (0, 0, 0) is PaymentReceiveLimit(2500); of payer
\* (10000, 3, 3) against payee (-100, 2, 2) it is PaymentReceiveLimit(4430);
\* and payer (10, 1, 0) has send_limit 424 and against payee (0, 0, 0) the
\* payment_limit PaymentSendLimit(424).
C21_TestVectors ==
    \A p \in Procs :
       LimitEvaluated(p) =>
          /\ IsUser(Payer(p), new_user(3000, 0, 0)) /\ IsUser(Payee(p), new_user(0, 0, 0)) =>
                payment_limit(Payer(p), Payee(p)) = Err("PaymentReceiveLimit", AsUsize(2500))
          /\ IsUser(Payer(p), new_user(10000, 3, 3)) /\ IsUser(Payee(p), new_user(-100, 2, 2)) =>
                payment_limit(Payer(p), Payee(p)) = Err("PaymentReceiveLimit", AsUsize(4430))
          /\ IsUser(Payer(p), new_user(10, 1, 0)) =>
                send_limit(Payer(p)) = AsUsize(424)
          /\ IsUser(Payer(p), new_user(10, 1, 0)) /\ IsUser(Payee(p), new_user(0, 0, 0)) =>
                payment_limit(Payer(p), Payee(p)) = Err("PaymentSendLimit", AsUsize(424))

====
